---- MODULE Spec2Model ----
(***************************************************************************)
(* Model of the DAQ semantic-analysis pipeline: src/src/ir.py (the IR),    *)
(* src/src/semantic_analyzer.py (SemanticAnalyzer and its five             *)
(* resource-allocation rules), src/src/generator.py and                    *)
(* src/src/targets/tiny_rtos.py (code generation), src/src/main.py (the    *)
(* driver).                                                                *)
(*                                                                         *)
(* Spec is one analyze of one IR; SpecCallers adds what the tests, the     *)
(* generator and the driver do around analyze; SpecPair is two analyses    *)
(* of two IRs, interleaved.                                                *)
(*                                                                         *)
(* SpecSensors is the sensor-configuration service beside the pipeline:    *)
(* src/semantic_analyzer.py (analyze of a request), src/daq_config.py      *)
(* (the catalogs), src/esp_mqtt_generator.py and src/main_api.py (the      *)
(* /generate-code endpoint).                                               *)
(*                                                                         *)
(* Python floats are modelled as exact rationals [num, den] in lowest      *)
(* terms; for the inputs enumerated here every threshold comparison of     *)
(* the exact value agrees with the IEEE-754 double the interpreter         *)
(* computes.                                                               *)
(***************************************************************************)
EXTENDS Integers, Sequences, FiniteSets, TLC

VARIABLES ir, ir0, pc, calls, run, direct, generated, driver, peer, request

vars == <<ir, ir0, pc, calls, run, direct, generated, driver, peer, request>>

-----------------------------------------------------------------------------
(* Bounds of the enumerated inputs.                                        *)

MaxChannels == 6
MaxRes == 2

-----------------------------------------------------------------------------
(* Float arithmetic, as exact rationals in lowest terms.                   *)

RECURSIVE GCD(_, _)
GCD(a, b) == IF b = 0 THEN a ELSE GCD(b, a % b)

Rat(n, d) == LET g == GCD(n, d) IN [num |-> n \div g, den |-> d \div g]

RatAdd(a, b) == Rat(a.num * b.den + b.num * a.den, a.den * b.den)

RatMul(a, b) == Rat(a.num * b.num, a.den * b.den)

RatDiv(a, b) == Rat(a.num * b.den, a.den * b.num)

RatGT(a, k) == a.num > k * a.den

-----------------------------------------------------------------------------
(* Data model.                                                             *)

None == "None"

Diagnostic(severity, message, rule_id, suggestion) ==
    [severity |-> severity, message |-> message, rule_id |-> rule_id,
     suggestion |-> suggestion, location |-> None]

HardwareResource(name, resource_type, capacity) ==
    [name |-> name, resource_type |-> resource_type, capacity |-> capacity,
     properties |-> <<>>]

ResourceAssignment(channel_id, resource_name, resource_index) ==
    [channel_id |-> channel_id, resource_name |-> resource_name,
     resource_index |-> resource_index]

\* dict[key] = value
Put(m, k, v) == [x \in DOMAIN m \cup {k} |-> IF x = k THEN v ELSE m[x]]

\* As available_adcs, but without the filter on resource_type.
available_adcs_any_type(cur) == cur.hardware_resources

\* [x for x in seq if x.resource_type == "ADC"]
available_adcs(cur) ==
    SelectSeq(cur.hardware_resources, LAMBDA res : res.resource_type = "ADC")

RECURSIVE SumCapacity(_)
SumCapacity(s) == IF s = <<>> THEN 0 ELSE Head(s).capacity + SumCapacity(Tail(s))

\* The result of one rule call: the IR as the rule left it, the diagnostics
\* it returned, and whether it raised instead of returning.
Returned(cur, diagnostics) == [ir |-> cur, diagnostics |-> diagnostics, raised |-> FALSE]

Raised(cur) == [ir |-> cur, diagnostics |-> <<>>, raised |-> TRUE]

-----------------------------------------------------------------------------
(* The resource-allocation rules.                                          *)

\* As validate_adc_availability, but the capacity of every resource counts,
\* whatever its resource_type.
validate_adc_availability_any_type(cur) ==
    LET total_capacity == SumCapacity(cur.hardware_resources)
    IN  IF Len(cur.channels) = 0
        THEN Returned(cur, <<>>)
        ELSE IF Len(cur.channels) > total_capacity
             THEN Returned(cur, <<Diagnostic("ERROR", "Not enough ADC capacity",
                                             "validate_adc_availability",
                                             "Reduce the number of requested channels or add more ADC hardware resources.")>>)
             ELSE Returned(cur, <<>>)

\* As validate_adc_availability, but the check is skipped when the inventory
\* holds no ADC-type resource.
validate_adc_availability_needs_adc(cur) ==
    LET total_adc_capacity == SumCapacity(available_adcs(cur))
    IN  IF Len(cur.channels) = 0 \/ available_adcs(cur) = <<>>
        THEN Returned(cur, <<>>)
        ELSE IF Len(cur.channels) > total_adc_capacity
             THEN Returned(cur, <<Diagnostic("ERROR", "Not enough ADC capacity",
                                             "validate_adc_availability",
                                             "Reduce the number of requested channels or add more ADC hardware resources.")>>)
             ELSE Returned(cur, <<>>)

validate_adc_availability(cur) ==
    LET total_adc_capacity == SumCapacity(available_adcs(cur))
    IN  IF Len(cur.channels) = 0
        THEN Returned(cur, <<>>)
        ELSE IF Len(cur.channels) > total_adc_capacity
             THEN Returned(cur, <<Diagnostic("ERROR", "Not enough ADC capacity",
                                             "validate_adc_availability",
                                             "Reduce the number of requested channels or add more ADC hardware resources.")>>)
             ELSE Returned(cur, <<>>)

\* As PackLoop, but the slot index is the running channel index instead of
\* the inner loop variable.
RECURSIVE PackLoop_channel_index(_, _, _, _, _, _)
PackLoop_channel_index(adcs, channels, a, i, channel_index, acc) ==
    IF a > Len(adcs)
    THEN [assignments |-> acc, channel_index |-> channel_index]
    ELSE IF i < adcs[a].capacity /\ channel_index < Len(channels)
         THEN PackLoop_channel_index(adcs, channels, a, i + 1, channel_index + 1,
                       Append(acc, ResourceAssignment(channels[channel_index + 1],
                                                      adcs[a].name, channel_index)))
         ELSE IF channel_index >= Len(channels)
              THEN [assignments |-> acc, channel_index |-> channel_index]
              ELSE PackLoop_channel_index(adcs, channels, a + 1, 0, channel_index, acc)

\* As PackLoop, but the inner loop runs over range(len(channels)) instead of
\* range(adc.capacity).
RECURSIVE PackLoop_range_channels(_, _, _, _, _, _)
PackLoop_range_channels(adcs, channels, a, i, channel_index, acc) ==
    IF a > Len(adcs)
    THEN [assignments |-> acc, channel_index |-> channel_index, iterations |-> 0]
    ELSE IF i < Len(channels) /\ channel_index < Len(channels)
         THEN LET rest == PackLoop_range_channels(adcs, channels, a, i + 1, channel_index + 1,
                              Append(acc, ResourceAssignment(channels[channel_index + 1],
                                                             adcs[a].name, i)))
              IN  [rest EXCEPT !.iterations = @ + (IF i = 0 THEN 2 ELSE 1)]
         ELSE IF channel_index >= Len(channels)
              THEN [assignments |-> acc, channel_index |-> channel_index,
                    iterations |-> (IF i = 0 THEN 1 ELSE 0) + (IF i < Len(channels) THEN 1 ELSE 0)]
              ELSE LET rest == PackLoop_range_channels(adcs, channels, a + 1, 0, channel_index, acc)
                   IN  [rest EXCEPT !.iterations = @ + (IF i = 0 THEN 1 ELSE 0)]

\* The two nested loops of pack_channels_to_adcs: a is the position in the
\* ADC list (1-based), i the value of the inner loop variable.  iterations
\* counts the iterations of both loops: one per ADC the outer loop visits, one
\* per pass through the body of the inner loop (the pass that breaks included).
RECURSIVE PackLoop(_, _, _, _, _, _)
PackLoop(adcs, channels, a, i, channel_index, acc) ==
    IF a > Len(adcs)
    THEN [assignments |-> acc, channel_index |-> channel_index, iterations |-> 0]
    ELSE IF i < adcs[a].capacity /\ channel_index < Len(channels)
         THEN LET rest == PackLoop(adcs, channels, a, i + 1, channel_index + 1,
                                   Append(acc, ResourceAssignment(channels[channel_index + 1],
                                                                  adcs[a].name, i)))
              IN  [rest EXCEPT !.iterations = @ + (IF i = 0 THEN 2 ELSE 1)]
         ELSE IF channel_index >= Len(channels)
              THEN [assignments |-> acc, channel_index |-> channel_index,
                    iterations |-> (IF i = 0 THEN 1 ELSE 0) + (IF i < adcs[a].capacity THEN 1 ELSE 0)]
              ELSE LET rest == PackLoop(adcs, channels, a + 1, 0, channel_index, acc)
                   IN  [rest EXCEPT !.iterations = @ + (IF i = 0 THEN 1 ELSE 0)]

\* As pack_channels_to_adcs, but the early return is taken whenever no ADC is
\* defined, also when no channel is requested.
pack_channels_to_adcs_no_adc_return(cur) ==
    LET adcs == available_adcs(cur)
    IN  IF Len(adcs) = 0
        THEN Returned(cur, IF Len(cur.channels) > 0
                           THEN <<Diagnostic("ERROR", "Channels requested but no ADC hardware resources defined.",
                                             "pack_channels_to_adcs",
                                             "Define ADC hardware resources in the IR.")>>
                           ELSE <<>>)
        ELSE LET packed == PackLoop(adcs, cur.channels, 1, 0, 0, <<>>)
                 out == [cur EXCEPT !.resource_assignments = packed.assignments]
             IN  IF packed.channel_index < Len(cur.channels)
                 THEN Returned(out, <<Diagnostic("ERROR", "Failed to assign all channels.",
                                                 "pack_channels_to_adcs",
                                                 "This indicates an internal logic error or a previous validation failure.")>>)
                 ELSE Returned(out, <<>>)

\* As pack_channels_to_adcs, but without the clear: the new assignments are
\* appended to those the IR holds.
pack_channels_to_adcs_no_clear(cur) ==
    LET adcs == available_adcs(cur)
    IN  IF Len(adcs) = 0 /\ Len(cur.channels) > 0
        THEN Returned(cur, <<Diagnostic("ERROR", "Channels requested but no ADC hardware resources defined.",
                                        "pack_channels_to_adcs",
                                        "Define ADC hardware resources in the IR.")>>)
        ELSE LET packed == PackLoop(adcs, cur.channels, 1, 0, 0, <<>>)
                 out == [cur EXCEPT !.resource_assignments = @ \o packed.assignments]
             IN  IF packed.channel_index < Len(cur.channels)
                 THEN Returned(out, <<Diagnostic("ERROR", "Failed to assign all channels.",
                                                 "pack_channels_to_adcs",
                                                 "This indicates an internal logic error or a previous validation failure.")>>)
                 ELSE Returned(out, <<>>)

pack_channels_to_adcs(cur) ==
    LET adcs == available_adcs(cur)
    IN  IF Len(adcs) = 0 /\ Len(cur.channels) > 0
        THEN Returned(cur, <<Diagnostic("ERROR", "Channels requested but no ADC hardware resources defined.",
                                        "pack_channels_to_adcs",
                                        "Define ADC hardware resources in the IR.")>>)
        ELSE LET packed == PackLoop(adcs, cur.channels, 1, 0, 0, <<>>)
                 out == [cur EXCEPT !.resource_assignments = packed.assignments]
             IN  IF packed.channel_index < Len(cur.channels)
                 THEN Returned(out, <<Diagnostic("ERROR", "Failed to assign all channels.",
                                                 "pack_channels_to_adcs",
                                                 "This indicates an internal logic error or a previous validation failure.")>>)
                 ELSE Returned(out, <<>>)

\* len([assignment for assignment in ir.resource_assignments if assignment.resource_name == name])
num_channels_on_adc(cur, name) ==
    Len(SelectSeq(cur.resource_assignments, LAMBDA asg : asg.resource_name = name))

used_adc_names(cur) ==
    {cur.resource_assignments[j].resource_name : j \in 1..Len(cur.resource_assignments)}

RECURSIVE UnassignedInfo(_, _)
UnassignedInfo(cur, adcs) ==
    IF adcs = <<>> THEN <<>>
    ELSE (IF Head(adcs).name \in used_adc_names(cur)
             /\ num_channels_on_adc(cur, Head(adcs).name) = 0
          THEN <<Diagnostic("INFO", <<"ADC ", Head(adcs).name, " is defined but has no channels assigned to it.">>,
                            "compute_adc_sampling_rate", None)>>
          ELSE <<>>) \o UnassignedInfo(cur, Tail(adcs))

\* As compute_adc_sampling_rate, but every ADC of the inventory that no
\* assignment names gets the INFO diagnostic.
compute_adc_sampling_rate_idle_info(cur) ==
    LET num_adcs_used == Cardinality(used_adc_names(cur))
        adcs == available_adcs(cur)
    IN  IF num_adcs_used = 0
        THEN IF Len(cur.channels) > 0
             THEN Returned(cur, <<Diagnostic("WARNING", "Channels requested but no ADCs were assigned. Cannot compute ADC sampling rates.",
                                             "compute_adc_sampling_rate",
                                             "Ensure ADC hardware resources are defined and channels are packed correctly.")>>)
             ELSE Returned(cur, <<>>)
        ELSE LET base_sampling_rate_per_adc ==
                     RatDiv(Rat(cur.sample_rate, 1), Rat(num_adcs_used, 1))
                 rated(res) ==
                     IF /\ res.resource_type = "ADC"
                        /\ res.name \in used_adc_names(cur)
                        /\ num_channels_on_adc(cur, res.name) > 0
                     THEN [res EXCEPT !.properties =
                              Put(@, "effective_sampling_rate",
                                  RatDiv(base_sampling_rate_per_adc,
                                         Rat(num_channels_on_adc(cur, res.name), 1)))]
                     ELSE res
                 out == [cur EXCEPT !.hardware_resources =
                            [j \in 1..Len(cur.hardware_resources) |->
                                rated(cur.hardware_resources[j])]]
                 idle == SelectSeq(adcs, LAMBDA adc : adc.name \notin used_adc_names(cur))
             IN  Returned(out, [j \in 1..Len(idle) |->
                                   Diagnostic("INFO", <<"ADC ", idle[j].name, " is defined but has no channels assigned to it.">>,
                                              "compute_adc_sampling_rate", None)])

\* As compute_adc_sampling_rate, but the sample rate is shared among all the
\* ADCs of the inventory instead of the ADCs in use.
compute_adc_sampling_rate_all_adcs(cur) ==
    LET num_adcs_used == Cardinality(used_adc_names(cur))
    IN  IF num_adcs_used = 0
        THEN IF Len(cur.channels) > 0
             THEN Returned(cur, <<Diagnostic("WARNING", "Channels requested but no ADCs were assigned. Cannot compute ADC sampling rates.",
                                             "compute_adc_sampling_rate",
                                             "Ensure ADC hardware resources are defined and channels are packed correctly.")>>)
             ELSE Returned(cur, <<>>)
        ELSE LET base_sampling_rate_per_adc ==
                     RatDiv(Rat(cur.sample_rate, 1), Rat(Len(available_adcs(cur)), 1))
                 rated(res) ==
                     IF /\ res.resource_type = "ADC"
                        /\ res.name \in used_adc_names(cur)
                        /\ num_channels_on_adc(cur, res.name) > 0
                     THEN [res EXCEPT !.properties =
                              Put(@, "effective_sampling_rate",
                                  RatDiv(base_sampling_rate_per_adc,
                                         Rat(num_channels_on_adc(cur, res.name), 1)))]
                     ELSE res
                 out == [cur EXCEPT !.hardware_resources =
                            [j \in 1..Len(cur.hardware_resources) |->
                                rated(cur.hardware_resources[j])]]
             IN  Returned(out, UnassignedInfo(cur, available_adcs(cur)))

compute_adc_sampling_rate(cur) ==
    LET num_adcs_used == Cardinality(used_adc_names(cur))
    IN  IF num_adcs_used = 0
        THEN IF Len(cur.channels) > 0
             THEN Returned(cur, <<Diagnostic("WARNING", "Channels requested but no ADCs were assigned. Cannot compute ADC sampling rates.",
                                             "compute_adc_sampling_rate",
                                             "Ensure ADC hardware resources are defined and channels are packed correctly.")>>)
             ELSE Returned(cur, <<>>)
        ELSE LET base_sampling_rate_per_adc ==
                     RatDiv(Rat(cur.sample_rate, 1), Rat(num_adcs_used, 1))
                 rated(res) ==
                     IF /\ res.resource_type = "ADC"
                        /\ res.name \in used_adc_names(cur)
                        /\ num_channels_on_adc(cur, res.name) > 0
                     THEN [res EXCEPT !.properties =
                              Put(@, "effective_sampling_rate",
                                  RatDiv(base_sampling_rate_per_adc,
                                         Rat(num_channels_on_adc(cur, res.name), 1)))]
                     ELSE res
                 out == [cur EXCEPT !.hardware_resources =
                            [j \in 1..Len(cur.hardware_resources) |->
                                rated(cur.hardware_resources[j])]]
             IN  Returned(out, UnassignedInfo(cur, available_adcs(cur)))

CPU_TIME_PER_CHANNEL_MS == Rat(1, 10)

CPU_OVERHEAD_MS == Rat(5, 10)

\* As compute_cpu_budget, but the WARNING is emitted from 80 on (>= 80).
compute_cpu_budget_from_80(cur) ==
    IF cur.sample_rate = 0
    THEN Raised(cur)
    ELSE LET total_cpu_time_ms ==
                 RatAdd(RatMul(Rat(Len(cur.channels), 1), CPU_TIME_PER_CHANNEL_MS),
                        CPU_OVERHEAD_MS)
             sample_period_ms == RatDiv(Rat(1000, 1), Rat(cur.sample_rate, 1))
             cpu_utilization_percent ==
                 RatMul(RatDiv(total_cpu_time_ms, sample_period_ms), Rat(100, 1))
             out == [cur EXCEPT !.target_config =
                        Put(Put(@, "daq_task_cpu_time_ms", total_cpu_time_ms),
                            "daq_task_cpu_utilization_percent", cpu_utilization_percent)]
         IN  IF cpu_utilization_percent.num >= 80 * cpu_utilization_percent.den
             THEN Returned(out, <<Diagnostic("WARNING", "High CPU utilization for DAQ task.",
                                             "compute_cpu_budget",
                                             "Consider reducing sample rate or number of channels.")>>)
             ELSE Returned(out, <<>>)

\* As compute_cpu_budget, but the WARNING is emitted only above 100 percent.
compute_cpu_budget_above_100(cur) ==
    IF cur.sample_rate = 0
    THEN Raised(cur)   \* ZeroDivisionError at 1000 / ir.sample_rate
    ELSE LET total_cpu_time_ms ==
                 RatAdd(RatMul(Rat(Len(cur.channels), 1), CPU_TIME_PER_CHANNEL_MS),
                        CPU_OVERHEAD_MS)
             sample_period_ms == RatDiv(Rat(1000, 1), Rat(cur.sample_rate, 1))
             cpu_utilization_percent ==
                 RatMul(RatDiv(total_cpu_time_ms, sample_period_ms), Rat(100, 1))
             out == [cur EXCEPT !.target_config =
                        Put(Put(@, "daq_task_cpu_time_ms", total_cpu_time_ms),
                            "daq_task_cpu_utilization_percent", cpu_utilization_percent)]
         IN  IF RatGT(cpu_utilization_percent, 100)
             THEN Returned(out, <<Diagnostic("WARNING", "High CPU utilization for DAQ task.",
                                             "compute_cpu_budget",
                                             "Consider reducing sample rate or number of channels.")>>)
             ELSE Returned(out, <<>>)

compute_cpu_budget(cur) ==
    IF cur.sample_rate = 0
    THEN Raised(cur)   \* ZeroDivisionError at 1000 / ir.sample_rate
    ELSE LET total_cpu_time_ms ==
                 RatAdd(RatMul(Rat(Len(cur.channels), 1), CPU_TIME_PER_CHANNEL_MS),
                        CPU_OVERHEAD_MS)
             sample_period_ms == RatDiv(Rat(1000, 1), Rat(cur.sample_rate, 1))
             cpu_utilization_percent ==
                 RatMul(RatDiv(total_cpu_time_ms, sample_period_ms), Rat(100, 1))
             out == [cur EXCEPT !.target_config =
                        Put(Put(@, "daq_task_cpu_time_ms", total_cpu_time_ms),
                            "daq_task_cpu_utilization_percent", cpu_utilization_percent)]
         IN  IF RatGT(cpu_utilization_percent, 80)
             THEN Returned(out, <<Diagnostic("WARNING", "High CPU utilization for DAQ task.",
                                             "compute_cpu_budget",
                                             "Consider reducing sample rate or number of channels.")>>)
             ELSE Returned(out, <<>>)

\* As emit_schedulability, but with two independent tests (if ... if) in place
\* of if ... elif.
emit_schedulability_no_elif(cur) ==
    IF "daq_task_cpu_utilization_percent" \in DOMAIN cur.target_config
    THEN LET cpu_utilization == cur.target_config["daq_task_cpu_utilization_percent"]
         IN  Returned(cur,
                 (IF RatGT(cpu_utilization, 100)
                  THEN <<Diagnostic("ERROR", "DAQ task is unschedulable.",
                                    "emit_schedulability",
                                    "Reduce sample rate, number of channels, or optimize task execution time.")>>
                  ELSE <<>>)
                 \o
                 (IF RatGT(cpu_utilization, 90)
                  THEN <<Diagnostic("WARNING", "DAQ task has very high CPU utilization.",
                                    "emit_schedulability",
                                    "Risk of missed deadlines. Consider reducing sample rate or channels.")>>
                  ELSE <<>>))
    ELSE Returned(cur, <<>>)

emit_schedulability(cur) ==
    IF "daq_task_cpu_utilization_percent" \in DOMAIN cur.target_config
    THEN LET cpu_utilization == cur.target_config["daq_task_cpu_utilization_percent"]
         IN  IF RatGT(cpu_utilization, 100)
             THEN Returned(cur, <<Diagnostic("ERROR", "DAQ task is unschedulable.",
                                             "emit_schedulability",
                                             "Reduce sample rate, number of channels, or optimize task execution time.")>>)
             ELSE IF RatGT(cpu_utilization, 90)
                  THEN Returned(cur, <<Diagnostic("WARNING", "DAQ task has very high CPU utilization.",
                                                  "emit_schedulability",
                                                  "Risk of missed deadlines. Consider reducing sample rate or channels.")>>)
                  ELSE Returned(cur, <<>>)
    ELSE Returned(cur, <<>>)

-----------------------------------------------------------------------------
(* SemanticAnalyzer.__init__ and analyze.                                  *)

phases == <<"initial-validation", "resource-allocation", "timing-analysis", "memory-constraints">>

rules(phase) ==
    IF phase = "resource-allocation"
    THEN <<"validate_adc_availability", "pack_channels_to_adcs",
           "compute_adc_sampling_rate", "compute_cpu_budget", "emit_schedulability">>
    ELSE <<>>

\* The (phase, rule) pairs in the order the two nested loops of analyze visit them.
RECURSIVE Schedule(_)
Schedule(p) ==
    IF p > Len(phases) THEN <<>>
    ELSE [j \in 1..Len(rules(phases[p])) |-> [phase |-> phases[p], rule |-> rules(phases[p])[j]]]
         \o Schedule(p + 1)

\* rule_func(ir)
Call(rule, cur) ==
    CASE rule = "validate_adc_availability" -> validate_adc_availability(cur)
      [] rule = "pack_channels_to_adcs"     -> pack_channels_to_adcs(cur)
      [] rule = "compute_adc_sampling_rate" -> compute_adc_sampling_rate(cur)
      [] rule = "compute_cpu_budget"        -> compute_cpu_budget(cur)
      [] rule = "emit_schedulability"       -> emit_schedulability(cur)

\* As TryRule, but without the except clause: a fault of the rule ends analyze.
TryRule_propagate(at, cur) ==
    LET rule == Schedule(1)[at].rule
        r == Call(rule, cur)
    IN  IF r.raised
        THEN [ir |-> r.ir, next |-> Len(Schedule(1)) + 1]
        ELSE [ir |-> [r.ir EXCEPT !.semantic_errors = @ \o r.diagnostics],
              next |-> at + 1]

\* As TryRule, but analyze stops after a rule that returned an ERROR.
TryRule_stop_on_error(at, cur) ==
    LET rule == Schedule(1)[at].rule
        r == Call(rule, cur)
    IN  IF r.raised
        THEN [ir |-> [r.ir EXCEPT !.semantic_errors =
                         Append(@, Diagnostic("ERROR", "Unhandled exception in phase, rule",
                                              rule, "Check rule implementation for bugs."))],
              next |-> at + 1]
        ELSE [ir |-> [r.ir EXCEPT !.semantic_errors = @ \o r.diagnostics],
              next |-> IF \E j \in 1..Len(r.diagnostics) : r.diagnostics[j].severity = "ERROR"
                       THEN Len(Schedule(1)) + 1
                       ELSE at + 1]

\* As TryRule, but a non-empty list of diagnostics is assigned to
\* ir.semantic_errors instead of extending it.
TryRule_assign(at, cur) ==
    LET rule == Schedule(1)[at].rule
        r == Call(rule, cur)
    IN  IF r.raised
        THEN [ir |-> [r.ir EXCEPT !.semantic_errors =
                         Append(@, Diagnostic("ERROR", "Unhandled exception in phase, rule",
                                              rule, "Check rule implementation for bugs."))],
              next |-> at + 1]
        ELSE [ir |-> [r.ir EXCEPT !.semantic_errors =
                         IF r.diagnostics # <<>> THEN r.diagnostics ELSE @],
              next |-> at + 1]

\* One iteration of the inner loop of analyze: the try/except around one rule.
\* Yields the IR after the iteration and the position of the next iteration.
TryRule(at, cur) ==
    LET rule == Schedule(1)[at].rule
        r == Call(rule, cur)
    IN  IF r.raised
        THEN [ir |-> [r.ir EXCEPT !.semantic_errors =
                         Append(@, Diagnostic("ERROR", "Unhandled exception in phase, rule",
                                              rule, "Check rule implementation for bugs."))],
              next |-> at + 1]
        ELSE [ir |-> [r.ir EXCEPT !.semantic_errors = @ \o r.diagnostics],
              next |-> at + 1]

-----------------------------------------------------------------------------
(* Code generation: CodeGenerator and the tiny-rtos adapter.               *)

\* dict.get(k, default)
Get(m, k, default) == IF k \in DOMAIN m THEN m[k] ELSE default

\* As adc_channel_map, but without the test for the key: the list of a
\* resource is started anew for each of its assignments.
RECURSIVE adc_channel_map_overwrite(_, _)
adc_channel_map_overwrite(assignments, acc) ==
    IF assignments = <<>>
    THEN acc
    ELSE LET assignment == Head(assignments)
         IN  adc_channel_map_overwrite(Tail(assignments),
                 Put(acc, assignment.resource_name, <<assignment.resource_index>>))

\* The loop that builds adc_channel_map: one list of resource indices per
\* resource name, in the order of the assignments.
RECURSIVE adc_channel_map(_, _)
adc_channel_map(assignments, acc) ==
    IF assignments = <<>>
    THEN acc
    ELSE LET assignment == Head(assignments)
             created == IF assignment.resource_name \in DOMAIN acc
                        THEN acc
                        ELSE Put(acc, assignment.resource_name, <<>>)
         IN  adc_channel_map(Tail(assignments),
                 Put(created, assignment.resource_name,
                     Append(created[assignment.resource_name], assignment.resource_index)))

\* As generate_target_model, but rtos_task_priority is taken with
\* target_config.pop(key, 5), which removes the key from the IR.
generate_target_model_pop(cur) ==
    [ir |-> [cur EXCEPT !.target_config =
                [k \in DOMAIN cur.target_config \ {"rtos_task_priority"} |-> cur.target_config[k]]],
     target_model |->
        [task_name |-> "DaqTask",
         sample_rate |-> cur.sample_rate,
         num_channels |-> Len(cur.channels),
         channels |-> cur.channels,
         rtos_task_priority |-> Get(cur.target_config, "rtos_task_priority", 5),
         rtos_stack_size |-> Get(cur.target_config, "rtos_stack_size", 256),
         rtos_tick_rate |-> Get(cur.target_config, "rtos_tick_rate", 1000),
         adcs |-> available_adcs(cur),
         resource_assignments |-> cur.resource_assignments,
         adc_channel_map |-> adc_channel_map(cur.resource_assignments, <<>>)]]

\* As generate_target_model, but the defaults of rtos_task_priority and
\* rtos_stack_size are exchanged.
generate_target_model_swapped_defaults(cur) ==
    [ir |-> cur,
     target_model |->
        [task_name |-> "DaqTask",
         sample_rate |-> cur.sample_rate,
         num_channels |-> Len(cur.channels),
         channels |-> cur.channels,
         rtos_task_priority |-> Get(cur.target_config, "rtos_task_priority", 256),
         rtos_stack_size |-> Get(cur.target_config, "rtos_stack_size", 5),
         rtos_tick_rate |-> Get(cur.target_config, "rtos_tick_rate", 1000),
         adcs |-> available_adcs(cur),
         resource_assignments |-> cur.resource_assignments,
         adc_channel_map |-> adc_channel_map(cur.resource_assignments, <<>>)]]

\* TinyRTOSAdapter.generate_target_model: the IR as the call leaves it, and
\* the adapter's target_model.
generate_target_model(cur) ==
    [ir |-> cur,
     target_model |->
        [task_name |-> "DaqTask",
         sample_rate |-> cur.sample_rate,
         num_channels |-> Len(cur.channels),
         channels |-> cur.channels,
         rtos_task_priority |-> Get(cur.target_config, "rtos_task_priority", 5),
         rtos_stack_size |-> Get(cur.target_config, "rtos_stack_size", 256),
         rtos_tick_rate |-> Get(cur.target_config, "rtos_tick_rate", 1000),
         adcs |-> available_adcs(cur),
         resource_assignments |-> cur.resource_assignments,
         adc_channel_map |-> adc_channel_map(cur.resource_assignments, <<>>)]]

\* The text of main.c is a fixed template around these interpolated values;
\* the text of hal_adc.h is fixed.
main_c_content(model) ==
    [template |-> "main.c",
     task_name |-> model.task_name,
     sample_rate |-> model.sample_rate,
     channels |-> model.channels,
     rtos_task_priority |-> model.rtos_task_priority,
     rtos_stack_size |-> model.rtos_stack_size]

hal_h_content == [template |-> "hal_adc.h"]

\* As generate_code, but the adapter takes the assignments out of the IR as it
\* consumes them.
generate_code_consumes_assignments(cur) ==
    LET m == generate_target_model(cur)
        model == m.target_model
    IN  [ir |-> [m.ir EXCEPT !.resource_assignments = <<>>],
         target_model |-> model,
         files |-> [filename \in {"main.c", "hal_adc.h"} |->
                       IF filename = "main.c" THEN main_c_content(model) ELSE hal_h_content]]

\* TinyRTOSAdapter.generate_code
generate_code(cur) ==
    LET m == generate_target_model(cur)
        model == m.target_model
    IN  [ir |-> m.ir,
         target_model |-> model,
         files |-> [filename \in {"main.c", "hal_adc.h"} |->
                       IF filename = "main.c" THEN main_c_content(model) ELSE hal_h_content]]

\* CodeGenerator.adapters
adapters == [target \in {"tiny-rtos"} |-> "TinyRTOSAdapter"]

Targets == {"tiny-rtos", "zephyr"}

\* As generate, but a target that is not registered falls back to the
\* tiny-rtos adapter.
generate_fallback(cur, target) ==
    LET g == generate_code(cur)
    IN  [ir |-> g.ir, raised |-> FALSE, error |-> None,
         adapter |-> Get(adapters, target, "TinyRTOSAdapter"),
         target_model |-> g.target_model, files |-> g.files]

\* CodeGenerator.generate: the ValueError, or the adapter it constructed and
\* the file map the adapter returned.
generate(cur, target) ==
    IF target \notin DOMAIN adapters
    THEN [ir |-> cur, raised |-> TRUE, error |-> <<"Unsupported target: ", target>>,
          adapter |-> None, target_model |-> None, files |-> None]
    ELSE LET g == generate_code(cur)
         IN  [ir |-> g.ir, raised |-> FALSE, error |-> None,
              adapter |-> adapters[target], target_model |-> g.target_model,
              files |-> g.files]

-----------------------------------------------------------------------------
(* Inputs.                                                                 *)

ADCNames == <<"ADC1", "ADC2", "ADC3", "ADC4">>

TimerNames == <<"Timer1", "Timer2", "Timer3", "Timer4">>

SampleRates == {0, 100, 1000, 2000}

\* Channel lists: ascending ids, descending ids, and a list that repeats ids.
ChannelLists ==
    {[j \in 1..n |-> j - 1] : n \in 0..MaxChannels}
    \cup {[j \in 1..n |-> n - j] : n \in 2..3}
    \cup {[j \in 1..n |-> (j - 1) % 2] : n \in 2..3}

\* Capacities of the ADCs: the 4 and 2 of the tests, 1, and the degenerate 0.
Capacities == {0, 1, 2, 4}

\* One resource of the inventory: an ADC of one of these capacities, or a timer
\* of the default capacity 1.
ResourceKinds ==
    {[resource_type |-> "ADC", capacity |-> c] : c \in Capacities}
    \cup {[resource_type |-> "Timer", capacity |-> 1]}

Inventory(kinds, dup) ==
    [j \in 1..Len(kinds) |->
        HardwareResource(
            IF kinds[j].resource_type = "ADC"
            THEN ADCNames[IF dup THEN 1 ELSE j]
            ELSE TimerNames[IF dup THEN 1 ELSE j],
            kinds[j].resource_type, kinds[j].capacity)]

Inventories ==
    {Inventory(kinds, dup) :
        kinds \in UNION {[1..n -> ResourceKinds] : n \in 0..MaxRes}, dup \in BOOLEAN}

\* target_config of the reference driver.
DriverConfig ==
    [k \in {"rtos_task_priority", "rtos_stack_size", "rtos_tick_rate", "microcontroller_name"} |->
        CASE k = "rtos_task_priority" -> 3
          [] k = "rtos_stack_size" -> 512
          [] k = "rtos_tick_rate" -> 1000
          [] k = "microcontroller_name" -> "STM32F4"]

\* What an earlier analysis (10 channels at 1000 Hz on ADC1) left behind in an
\* IR object that the caller hands to analyze again.
StaleAssignments == <<ResourceAssignment(8, "ADC1", 8), ResourceAssignment(9, "ADC1", 9)>>

StaleConfig ==
    Put(Put(<<>>, "daq_task_cpu_time_ms", Rat(15, 10)),
        "daq_task_cpu_utilization_percent", Rat(150, 1))

StaleDiagnostics ==
    <<Diagnostic("WARNING", "High CPU utilization for DAQ task.", "compute_cpu_budget",
                 "Consider reducing sample rate or number of channels.")>>

DAQConfigIR(sample_rate, channels, hardware_resources, origin) ==
    [sample_rate |-> sample_rate,
     channels |-> channels,
     hardware_resources |-> hardware_resources,
     resource_assignments |-> IF origin = "reused" THEN StaleAssignments ELSE <<>>,
     target_config |-> CASE origin = "fresh" -> <<>>
                         [] origin = "driver" -> DriverConfig
                         [] origin = "reused" -> StaleConfig,
     semantic_errors |-> IF origin = "reused" THEN StaleDiagnostics ELSE <<>>]

Origins == {"fresh", "driver", "reused"}

-----------------------------------------------------------------------------------------------------------------------------------------------------
(* The state machine: analyze, one rule per step, and what its callers do  *)
(* around it.                                                              *)
(*   ir, ir0    the IR, and the IR as it was when this analyze began       *)
(*   pc, calls  the position in the rule schedule, the rules called so far *)
(*   run        1 in the first analyze of ir, 2 in the second              *)
(*   direct     the rule methods a test called directly, with what each    *)
(*              returned                                                   *)
(*   generated  the calls of CodeGenerator.generate: the IR and the target *)
(*              passed, and the result                                     *)
(*   driver     how far main got after analyze, and the files it wrote     *)
(*   peer       a second IR under analysis at the same time (SpecPair)     *)
(*   request    a /generate-code request and its response (SpecSensors)    *)

NoRequest == [state |-> "none"]

Idle == [state |-> "idle", files |-> <<>>]

Init ==
    /\ \E sample_rate \in SampleRates, channels \in ChannelLists,
          hardware_resources \in Inventories, origin \in Origins :
          ir = DAQConfigIR(sample_rate, channels, hardware_resources, origin)
    /\ ir0 = ir
    /\ pc = 1
    /\ calls = <<>>
    /\ run = 1
    /\ direct = <<>>
    /\ generated = <<>>
    /\ driver = Idle
    /\ peer = None
    /\ request = NoRequest

\* The body of the inner loop of analyze, for the rule at position pc.
AnalyzeStep ==
    /\ direct = <<>>
    /\ LET t == TryRule(pc, ir)
       IN  /\ ir' = t.ir
           /\ pc' = t.next
    /\ calls' = Append(calls, Schedule(1)[pc].rule)
    /\ UNCHANGED <<ir0, run, direct, generated, driver, peer, request>>

AtRule(rule) == pc <= Len(Schedule(1)) /\ Schedule(1)[pc].rule = rule

ValidateAdcAvailability ==
    /\ AtRule("validate_adc_availability")
    /\ AnalyzeStep

PackChannelsToAdcs ==
    /\ AtRule("pack_channels_to_adcs")
    /\ AnalyzeStep

ComputeAdcSamplingRate ==
    /\ AtRule("compute_adc_sampling_rate")
    /\ AnalyzeStep

ComputeCpuBudget ==
    /\ AtRule("compute_cpu_budget")
    /\ AnalyzeStep

EmitSchedulability ==
    /\ AtRule("emit_schedulability")
    /\ AnalyzeStep

Next ==
    \/ ValidateAdcAvailability
    \/ PackChannelsToAdcs
    \/ ComputeAdcSamplingRate
    \/ ComputeCpuBudget
    \/ EmitSchedulability

Spec == Init /\ [][Next]_vars

-----------------------------------------------------------------------------
(* The callers of analyze and of the rules: the tests, the generator and   *)
(* the driver, on the inventories they construct.                          *)

\* Inventories as the tests and the driver build them: resources with distinct
\* names, ADCs of capacity 2 or 4.
CallerInventories ==
    {hardware_resources \in Inventories :
        /\ \A j, k \in 1..Len(hardware_resources) :
               hardware_resources[j].name = hardware_resources[k].name => j = k
        /\ \A j \in 1..Len(hardware_resources) :
               hardware_resources[j].resource_type = "ADC"
                   => hardware_resources[j].capacity \in {2, 4}}

CallerSampleRates == {0, 100, 1000}

InitCallers ==
    /\ \E sample_rate \in CallerSampleRates, channels \in ChannelLists,
          hardware_resources \in CallerInventories, origin \in Origins :
          ir = DAQConfigIR(sample_rate, channels, hardware_resources, origin)
    /\ ir0 = ir
    /\ pc = 1
    /\ calls = <<>>
    /\ run = 1
    /\ direct = <<>>
    /\ generated = <<>>
    /\ driver = Idle
    /\ peer = None
    /\ request = NoRequest

\* analyze has returned: the loop over the schedule is over.
Returned_analyze == pc > Len(Schedule(1))

\* An IR as a test or the driver constructs it, before any analysis.
Constructed(cur, target_config) ==
    /\ cur.target_config = target_config
    /\ cur.resource_assignments = <<>>
    /\ cur.semantic_errors = <<>>

\* The caller hands the analysed IR to analyze a second time.
AnalyzeAgain ==
    /\ Returned_analyze
    /\ run = 1
    /\ generated = <<>>
    /\ driver = Idle
    /\ run' = 2
    /\ ir0' = ir
    /\ pc' = 1
    /\ calls' = <<>>
    /\ UNCHANGED <<ir, direct, generated, driver, peer, request>>

\* The sequences of direct calls of rule methods in test_resource_allocation.py.
DirectScripts ==
    {<<"validate_adc_availability">>,
     <<"pack_channels_to_adcs">>,
     <<"pack_channels_to_adcs", "compute_adc_sampling_rate">>,
     <<"compute_cpu_budget">>,
     <<"compute_cpu_budget", "emit_schedulability">>}

\* A test calls one rule method on the IR it constructed and drops the list
\* the method returns; an exception of the method ends the test.
DirectCall(rule) ==
    /\ pc = 1
    /\ run = 1
    /\ Constructed(ir0, <<>>)
    /\ \A j \in 1..Len(direct) : ~direct[j].raised
    /\ \E script \in DirectScripts :
          /\ Len(script) > Len(direct)
          /\ \A j \in 1..Len(direct) : script[j] = direct[j].rule
          /\ script[Len(direct) + 1] = rule
    /\ LET r == Call(rule, ir)
       IN  /\ ir' = r.ir
           /\ direct' = Append(direct, [rule |-> rule, diagnostics |-> r.diagnostics,
                                        raised |-> r.raised])
    /\ UNCHANGED <<ir0, pc, calls, run, generated, driver, peer, request>>

\* A caller passes the analysed IR to CodeGenerator.generate, and after a
\* file map came back, once more with the same target.
Generate(target) ==
    /\ Returned_analyze
    /\ run = 1
    /\ driver = Idle
    /\ Len(generated) < 2
    /\ generated # <<>> => ~generated[1].result.raised /\ target = generated[1].target
    /\ LET g == generate(ir, target)
       IN  /\ ir' = g.ir
           /\ generated' = Append(generated, [ir |-> ir, target |-> target, result |-> g])
    /\ UNCHANGED <<ir0, pc, calls, run, direct, driver, peer, request>>

\* main after analyze returned, on the IR main constructed: the gate on the
\* diagnostics, then generate and one file written per entry of the file map.
Main(target) ==
    /\ Returned_analyze
    /\ run = 1
    /\ Constructed(ir0, DriverConfig)
    /\ driver = Idle
    /\ generated = <<>>
    /\ IF ir.semantic_errors # <<>>
       THEN /\ driver' = [state |-> "stopped", files |-> <<>>]
            /\ UNCHANGED <<ir, generated>>
       ELSE LET g == generate(ir, target)
            IN  /\ ir' = g.ir
                /\ generated' = <<[ir |-> ir, target |-> target, result |-> g]>>
                /\ driver' = IF g.raised
                             THEN [state |-> "error", files |-> <<>>]
                             ELSE [state |-> "written", files |-> g.files]
    /\ UNCHANGED <<ir0, pc, calls, run, direct, peer, request>>

NextCallers ==
    \/ ValidateAdcAvailability
    \/ PackChannelsToAdcs
    \/ ComputeAdcSamplingRate
    \/ ComputeCpuBudget
    \/ EmitSchedulability
    \/ AnalyzeAgain
    \/ \E rule \in {Schedule(1)[j].rule : j \in 1..Len(Schedule(1))} : DirectCall(rule)
    \/ \E target \in Targets : Generate(target)
    \/ \E target \in Targets : Main(target)

SpecCallers == InitCallers /\ [][NextCallers]_vars

-----------------------------------------------------------------------------
(* Two analyses at the same time: one SemanticAnalyzer, two IRs that share *)
(* no object, the rule iterations of the two analyze calls interleaved.    *)

\* analyze from the rule at position at to its return.
RECURSIVE analyze_from(_, _)
analyze_from(at, cur) ==
    IF at > Len(Schedule(1))
    THEN cur
    ELSE LET t == TryRule(at, cur) IN analyze_from(t.next, t.ir)

\* SemanticAnalyzer.analyze
analyze(cur) == analyze_from(1, cur)

\* As Interleaved, but the two IRs hold one and the same semantic_errors list
\* object, so what an iteration appends for cur shows in bystander as well.
Interleaved_shared_list(at, cur, bystander) ==
    LET t == TryRule(at, cur)
        appended == SubSeq(t.ir.semantic_errors, Len(cur.semantic_errors) + 1,
                           Len(t.ir.semantic_errors))
    IN  [ir |-> t.ir, next |-> t.next,
         bystander |-> [bystander EXCEPT !.semantic_errors = @ \o appended]]

\* The iterations of the loops and comprehensions of one rule on cur: the
\* filters over hardware_resources, the two loops of packing, and in
\* compute_adc_sampling_rate the set over the assignments, the loop over the
\* ADCs and one pass over the assignments per ADC in use.
Iterations(rule, cur) ==
    LET adcs == available_adcs(cur)
        in_use == SelectSeq(adcs, LAMBDA adc : adc.name \in used_adc_names(cur))
    IN  CASE rule = "validate_adc_availability" -> Len(cur.hardware_resources)
          [] rule = "pack_channels_to_adcs" ->
                Len(cur.hardware_resources)
                + (IF Len(adcs) = 0 /\ Len(cur.channels) > 0
                   THEN 0
                   ELSE PackLoop(adcs, cur.channels, 1, 0, 0, <<>>).iterations)
          [] rule = "compute_adc_sampling_rate" ->
                Len(cur.hardware_resources) + Len(cur.resource_assignments)
                + (IF used_adc_names(cur) = {}
                   THEN 0
                   ELSE Len(adcs) + Len(in_use) * Len(cur.resource_assignments))
          [] rule = "compute_cpu_budget" -> 0
          [] rule = "emit_schedulability" -> 0

\* The iterations analyze performs from the rule at position at on: one of its
\* inner loop per rule, and those of the rule.
RECURSIVE iterations_from(_, _)
iterations_from(at, cur) ==
    IF at > Len(Schedule(1))
    THEN 0
    ELSE LET t == TryRule(at, cur)
         IN  1 + Iterations(Schedule(1)[at].rule, cur) + iterations_from(t.next, t.ir)

\* All loop iterations of analyze(cur): those of the loop over the phases too.
analyze_iterations(cur) == Len(phases) + iterations_from(1, cur)

\* One iteration of the loop of analyze on cur while another IR, bystander,
\* is under analysis: the iteration reaches cur only.
Interleaved(at, cur, bystander) ==
    LET t == TryRule(at, cur)
    IN  [ir |-> t.ir, next |-> t.next, bystander |-> bystander]

\* The IRs of the two callers: the six channels of the driver, at 1000 Hz or
\* at 0 Hz, in a new IR with the two ADCs of the driver or in a reused IR
\* without resources.
PairIRs ==
    {DAQConfigIR(sample_rate, <<0, 1, 2, 3, 4, 5>>,
                 IF origin = "fresh"
                 THEN <<HardwareResource("ADC1", "ADC", 4), HardwareResource("ADC2", "ADC", 2)>>
                 ELSE <<>>,
                 origin) :
        sample_rate \in {0, 1000}, origin \in {"fresh", "reused"}}

\* peer.at logs, for each rule iteration on the peer, the position pc the
\* analysis of ir had reached.
InitPair ==
    /\ ir \in PairIRs
    /\ ir0 = ir
    /\ pc = 1
    /\ calls = <<>>
    /\ run = 1
    /\ direct = <<>>
    /\ generated = <<>>
    /\ driver = Idle
    /\ \E cur \in PairIRs : peer = [ir |-> cur, ir0 |-> cur, pc |-> 1, at |-> <<>>]
    /\ request = NoRequest

AnalyzePeer ==
    /\ peer.pc <= Len(Schedule(1))
    /\ LET t == Interleaved(peer.pc, peer.ir, ir)
       IN  /\ peer' = [peer EXCEPT !.ir = t.ir, !.pc = t.next, !.at = Append(@, pc)]
           /\ ir' = t.bystander
    /\ UNCHANGED <<ir0, pc, calls, run, direct, generated, driver, request>>

NextPair ==
    \/ ValidateAdcAvailability
    \/ PackChannelsToAdcs
    \/ ComputeAdcSamplingRate
    \/ ComputeCpuBudget
    \/ EmitSchedulability
    \/ AnalyzePeer

SpecPair == InitPair /\ [][NextPair]_vars

-----------------------------------------------------------------------------
(* Vocabulary of the properties.                                           *)

RuleOrder ==
    <<"validate_adc_availability", "pack_channels_to_adcs",
      "compute_adc_sampling_rate", "compute_cpu_budget", "emit_schedulability">>

\* analyze has returned.
Done == pc > Len(RuleOrder)

\* The rule has been called by this run of analyze.
RuleHasRun(rule) == \E j \in 1..Len(calls) : calls[j] = rule

\* The diagnostics this run of analyze has appended so far.
NewDiagnostics ==
    SubSeq(ir.semantic_errors, Len(ir0.semantic_errors) + 1, Len(ir.semantic_errors))

\* How many of the new diagnostics come from the rule with the severity.
Emitted(rule, severity) ==
    Cardinality({j \in 1..Len(NewDiagnostics) :
                    /\ NewDiagnostics[j].rule_id = rule
                    /\ NewDiagnostics[j].severity = severity})

EmittedBy(rule) ==
    Cardinality({j \in 1..Len(NewDiagnostics) : NewDiagnostics[j].rule_id = rule})

IsAdc(res) == res.resource_type = "ADC"

HasAdc == \E j \in 1..Len(ir0.hardware_resources) : IsAdc(ir0.hardware_resources[j])

\* The slots of the ADC-type resources: declared resource order, and index
\* 0..capacity-1 within each resource.
RECURSIVE SlotsOf(_)
SlotsOf(resources) ==
    IF resources = <<>> THEN <<>>
    ELSE (IF IsAdc(Head(resources))
          THEN [j \in 1..Head(resources).capacity |->
                   [name |-> Head(resources).name, index |-> j - 1]]
          ELSE <<>>) \o SlotsOf(Tail(resources))

Slots == SlotsOf(ir0.hardware_resources)

TotalAdcCapacity == Len(Slots)

Min(a, b) == IF a < b THEN a ELSE b

Packable == Min(Len(ir0.channels), TotalAdcCapacity)

\* The k-th channel bound to the k-th slot.
Binding(k) == ResourceAssignment(ir0.channels[k], Slots[k].name, Slots[k].index)

OverCapacity == Len(ir0.channels) > TotalAdcCapacity

\* The input contract: sample_rate > 0, unique resource names, distinct channel
\* ids, positive capacities.
InputContract ==
    /\ ir0.sample_rate > 0
    /\ \A j, k \in 1..Len(ir0.hardware_resources) :
          ir0.hardware_resources[j].name = ir0.hardware_resources[k].name => j = k
    /\ \A j, k \in 1..Len(ir0.channels) : ir0.channels[j] = ir0.channels[k] => j = k
    /\ \A j \in 1..Len(ir0.hardware_resources) : ir0.hardware_resources[j].capacity > 0

-----------------------------------------------------------------------------
(* C1 *)

\* C1 as stated: whenever len(channels) exceeds the total ADC capacity, analyze
\* yields exactly one ERROR of validate_adc_availability and leaves
\* resource_assignments empty. Stated for the IRs that meet the input contract
\* and carry no assignment when analysis starts, so none is left over from before.
C1_OverCapacityLeavesNoAssignments ==
    (Done /\ OverCapacity /\ InputContract /\ ir0.resource_assignments = <<>>) =>
        /\ Emitted("validate_adc_availability", "ERROR") = 1
        /\ EmittedBy("validate_adc_availability") = 1
        /\ ir.resource_assignments = <<>>

\* C1 amended: whenever len(channels) exceeds the total ADC capacity, analyze
\* yields exactly one diagnostic of validate_adc_availability, an ERROR; packing
\* still runs, so with an ADC-type resource in the inventory resource_assignments
\* holds as many assignments as the total ADC capacity.
C1_OverCapacityOneError ==
    (Done /\ OverCapacity) =>
        /\ Emitted("validate_adc_availability", "ERROR") = 1
        /\ EmittedBy("validate_adc_availability") = 1
        /\ HasAdc => Len(ir.resource_assignments) = TotalAdcCapacity

\* Six channels on ADC1 (capacity 4) alone: the capacity ERROR and four assignments.
C1_Witness ==
    /\ Done
    /\ Len(ir0.channels) = 6
    /\ Len(ir0.hardware_resources) = 1
    /\ TotalAdcCapacity = 4
    /\ Emitted("validate_adc_availability", "ERROR") = 1
    /\ Len(ir.resource_assignments) = 4

-----------------------------------------------------------------------------
(* C2 *)

\* C2: after pack_channels_to_adcs, for every k up to min(len(channels), total
\* ADC capacity) the k-th assignment binds the k-th channel to the k-th slot of
\* the ADC-type resources.
C2_GreedyPacking ==
    RuleHasRun("pack_channels_to_adcs") =>
        \A k \in 1..Packable :
            /\ k <= Len(ir.resource_assignments)
            /\ ir.resource_assignments[k] = Binding(k)

\* Channels [0..5] on ADC1 (capacity 4), ADC2 (capacity 2).
C2_Witness ==
    /\ RuleHasRun("pack_channels_to_adcs")
    /\ ir0.channels = <<0, 1, 2, 3, 4, 5>>
    /\ ir0.hardware_resources =
           <<HardwareResource("ADC1", "ADC", 4), HardwareResource("ADC2", "ADC", 2)>>
    /\ ir.resource_assignments =
           <<ResourceAssignment(0, "ADC1", 0), ResourceAssignment(1, "ADC1", 1),
             ResourceAssignment(2, "ADC1", 2), ResourceAssignment(3, "ADC1", 3),
             ResourceAssignment(4, "ADC2", 0), ResourceAssignment(5, "ADC2", 1)>>

-----------------------------------------------------------------------------
(* C3 *)

\* The resources an assignment names.
Named(asg) ==
    {j \in 1..Len(ir.hardware_resources) : ir.hardware_resources[j].name = asg.resource_name}

\* C3 as stated: after analyze on an IR that meets the input contract, every
\* assignment has resource_index below the capacity of the resource it names,
\* no two assignments share (resource_name, resource_index), every channel_id
\* is one of channels, and no channel_id is assigned twice.
C3_AssignmentsWellFormed ==
    (Done /\ InputContract) =>
        \A j \in 1..Len(ir.resource_assignments) :
            LET asg == ir.resource_assignments[j]
            IN  /\ Named(asg) # {}
                /\ \A r \in Named(asg) : asg.resource_index < ir.hardware_resources[r].capacity
                /\ \E c \in 1..Len(ir.channels) : ir.channels[c] = asg.channel_id
                /\ \A k \in 1..Len(ir.resource_assignments) :
                      LET other == ir.resource_assignments[k]
                      IN  k # j =>
                            /\ ~(other.resource_name = asg.resource_name
                                 /\ other.resource_index = asg.resource_index)
                            /\ other.channel_id # asg.channel_id

-----------------------------------------------------------------------------
(* C4 *)

\* C4 as stated: after pack_channels_to_adcs the list holds only assignments
\* created by that run, that is, exactly the bindings of the channels it placed,
\* whatever the list held before.
C4_PackClearsPrevious ==
    RuleHasRun("pack_channels_to_adcs") =>
        ir.resource_assignments = [k \in 1..Packable |-> Binding(k)]

-----------------------------------------------------------------------------
(* C5 *)

NoChannels == ir0.channels = <<>>

\* C5 as stated: with channels = [] and any sample_rate > 0, analyze appends
\* no diagnostic and leaves resource_assignments empty.
C5_NoChannelsNoDiagnostics ==
    (Done /\ NoChannels /\ ir0.sample_rate > 0) =>
        /\ NewDiagnostics = <<>>
        /\ ir.resource_assignments = <<>>

\* C5 amended: with channels = [], analyze leaves resource_assignments empty
\* for every sample_rate, and appends no diagnostic when 0 < sample_rate <= 1600,
\* that is, when the utilization of the fixed overhead, 5 * sample_rate / 100,
\* is at most 80.
C5_NoChannelsLowRate ==
    (Done /\ NoChannels) =>
        /\ ir.resource_assignments = <<>>
        /\ (ir0.sample_rate > 0 /\ 5 * ir0.sample_rate <= 80 * 100) => NewDiagnostics = <<>>

\* No channels at 1000 Hz on an IR that carried assignments and has no ADC.
C5_Witness ==
    /\ Done
    /\ NoChannels
    /\ ir0.sample_rate = 1000
    /\ ir0.resource_assignments # <<>>
    /\ ~HasAdc
    /\ ir.resource_assignments = <<>>
    /\ NewDiagnostics = <<>>

-----------------------------------------------------------------------------
(* C6 *)

\* The number of assignments that name the resource.
AssignedTo(name) ==
    Cardinality({j \in 1..Len(ir.resource_assignments) :
                    ir.resource_assignments[j].resource_name = name})

\* The number of distinct resource names that received an assignment.
ResourcesInUse ==
    Cardinality({ir.resource_assignments[j].resource_name :
                    j \in 1..Len(ir.resource_assignments)})

\* The resource of the inventory with the name, once the rates are computed.
RateOf(name) ==
    LET j == CHOOSE j \in 1..Len(ir.hardware_resources) : ir.hardware_resources[j].name = name
    IN  ir.hardware_resources[j].properties["effective_sampling_rate"]

\* C6: after compute_adc_sampling_rate, every resource named by at least one
\* assignment carries effective_sampling_rate = (sample_rate / N) / k, with N
\* the number of distinct resources in use and k the number of assignments on
\* that resource: effective_rate * k * N = sample_rate.
C6_EffectiveRate ==
    RuleHasRun("compute_adc_sampling_rate") =>
        \A j \in 1..Len(ir.hardware_resources) :
            LET res == ir.hardware_resources[j]
                k == AssignedTo(res.name)
            IN  k > 0 =>
                  /\ "effective_sampling_rate" \in DOMAIN res.properties
                  /\ res.properties["effective_sampling_rate"].den > 0
                  /\ res.properties["effective_sampling_rate"].num * k * ResourcesInUse
                        = ir.sample_rate * res.properties["effective_sampling_rate"].den

\* The 4+2 packing at sample_rate 1000: 125 for ADC1 and 250 for ADC2.
C6_Witness ==
    /\ RuleHasRun("compute_adc_sampling_rate")
    /\ ir.sample_rate = 1000
    /\ ir0.hardware_resources =
           <<HardwareResource("ADC1", "ADC", 4), HardwareResource("ADC2", "ADC", 2)>>
    /\ AssignedTo("ADC1") = 4
    /\ AssignedTo("ADC2") = 2
    /\ RateOf("ADC1") = [num |-> 125, den |-> 1]
    /\ RateOf("ADC2") = [num |-> 250, den |-> 1]

-----------------------------------------------------------------------------
(* C7 *)

\* (len(channels) + 5) * sample_rate: one hundred times the utilization.
Utilization100 == (Len(ir.channels) + 5) * ir.sample_rate

-----------------------------------------------------------------------------
(* C8 *)

HasUtilization == "daq_task_cpu_utilization_percent" \in DOMAIN ir.target_config

StoredUtilization == ir.target_config["daq_task_cpu_utilization_percent"]

\* The stored utilization is above the percentage.
Above(percent) == HasUtilization /\ StoredUtilization.num > percent * StoredUtilization.den

-----------------------------------------------------------------------------
(* C9 *)

\* The diagnostics analyze itself appends for a rule that raised.
FaultsOf(rule) ==
    {j \in 1..Len(NewDiagnostics) :
        /\ NewDiagnostics[j].rule_id = rule
        /\ NewDiagnostics[j].severity = "ERROR"
        /\ NewDiagnostics[j].message = "Unhandled exception in phase, rule"
        /\ NewDiagnostics[j].suggestion # None}

\* C9: when compute_cpu_budget raises (sample_rate = 0), analyze appends exactly
\* one diagnostic for that rule, an ERROR with the rule's name as rule_id and
\* a suggestion, goes on to the next rule, and returns only after
\* emit_schedulability has run.
C9_FaultContained ==
    ir.sample_rate = 0 =>
        /\ RuleHasRun("compute_cpu_budget") =>
              /\ Cardinality(FaultsOf("compute_cpu_budget")) = 1
              /\ EmittedBy("compute_cpu_budget") = 1
        /\ (RuleHasRun("compute_cpu_budget") /\ ~RuleHasRun("emit_schedulability")) =>
              AtRule("emit_schedulability")
        /\ Done => calls[Len(calls)] = "emit_schedulability"

\* analyze has returned from an IR with sample_rate 0.
C9_Witness ==
    /\ Done
    /\ ir.sample_rate = 0
    /\ Len(ir.channels) > 0
    /\ Cardinality(FaultsOf("compute_cpu_budget")) = 1
    /\ calls[5] = "emit_schedulability"

-----------------------------------------------------------------------------
(* C10 *)

RuleIndex(rule) == CHOOSE j \in 1..Len(RuleOrder) : RuleOrder[j] = rule

\* C10: analyze calls the five rules once each in the fixed order, whatever
\* ERROR an earlier rule produced: until it returns the next rule of the order
\* is the one to run, after
\* a capacity ERROR packing has still filled the ADC slots and (for
\* sample_rate > 0) target_config holds both CPU values, and the new
\* diagnostics are in rule order.
C10_FixedOrder ==
    /\ Len(calls) = pc - 1
    /\ Len(calls) <= Len(RuleOrder)
    /\ calls = SubSeq(RuleOrder, 1, Len(calls))
    /\ ~Done => AtRule(RuleOrder[pc])
    /\ (Done /\ Emitted("validate_adc_availability", "ERROR") > 0) =>
          /\ HasAdc => Len(ir.resource_assignments) = Packable
          /\ ir.sample_rate > 0 =>
                /\ "daq_task_cpu_time_ms" \in DOMAIN ir.target_config
                /\ HasUtilization
                /\ StoredUtilization.num * 100 = Utilization100 * StoredUtilization.den
    /\ \A j, k \in 1..Len(NewDiagnostics) :
          j < k => RuleIndex(NewDiagnostics[j].rule_id) <= RuleIndex(NewDiagnostics[k].rule_id)

\* Six channels at 1000 Hz on ADC1 (capacity 4) in a fresh IR: the capacity
\* ERROR, the packing ERROR, the budget WARNING and the schedulability ERROR.
C10_Witness ==
    /\ Done
    /\ calls = RuleOrder
    /\ ir0.target_config = <<>>
    /\ Len(ir.channels) = 6
    /\ ir.sample_rate = 1000
    /\ TotalAdcCapacity = 4
    /\ Emitted("validate_adc_availability", "ERROR") = 1
    /\ Len(ir.resource_assignments) = 4
    /\ HasUtilization
    /\ Len(NewDiagnostics) = 4

-----------------------------------------------------------------------------
(* C11 *)

HasError == \E j \in 1..Len(ir.semantic_errors) : ir.semantic_errors[j].severity = "ERROR"

\* main has gone past its gate on the diagnostics.
MainDone == driver.state # "idle"

-----------------------------------------------------------------------------
(* C12 *)

\* C12: every call of CodeGenerator.generate with a target that is not a key
\* of the adapter registry raised the unsupported-target error naming that
\* target, constructed no adapter, returned no file map and left the IR as it
\* was passed in.
C12_UnsupportedTarget ==
    \A j \in 1..Len(generated) :
        generated[j].target \notin DOMAIN adapters =>
            /\ generated[j].result.raised
            /\ generated[j].result.error = <<"Unsupported target: ", generated[j].target>>
            /\ generated[j].result.adapter = None
            /\ generated[j].result.target_model = None
            /\ generated[j].result.files = None
            /\ generated[j].result.ir = generated[j].ir
            /\ j = Len(generated) => ir = generated[j].ir

\* generate(ir, "zephyr") on an analysed IR that holds assignments, and the
\* same through main on an IR without diagnostics.
C12_Witness ==
    /\ Len(generated) = 1
    /\ generated[1].target = "zephyr"
    /\ generated[1].result.raised
    /\ generated[1].ir.resource_assignments # <<>>
    /\ driver.state = "error"

-----------------------------------------------------------------------------
(* C13 *)

-----------------------------------------------------------------------------
(* C17 *)

\* The value the caller configured for key before analysis, or default.
Configured(key, default) ==
    IF key \in DOMAIN ir0.target_config THEN ir0.target_config[key] ELSE default

\* C17: in every target model the tiny-rtos adapter built, rtos_task_priority,
\* rtos_stack_size and rtos_tick_rate are the values target_config held under
\* these keys before analysis, and 5, 256 and 1000 where the key was absent;
\* the CPU time and utilization that analysis wrote into target_config change
\* none of the three.
C17_RtosParameters ==
    \A j \in 1..Len(generated) :
        ~generated[j].result.raised =>
            /\ generated[j].result.target_model.rtos_task_priority
                   = Configured("rtos_task_priority", 5)
            /\ generated[j].result.target_model.rtos_stack_size
                   = Configured("rtos_stack_size", 256)
            /\ generated[j].result.target_model.rtos_tick_rate
                   = Configured("rtos_tick_rate", 1000)

\* A target model built from an IR without the three keys, after analysis
\* wrote both CPU values into target_config: the defaults.
C17_Witness ==
    /\ Len(generated) = 1
    /\ ~generated[1].result.raised
    /\ ir0.target_config = <<>>
    /\ DOMAIN generated[1].ir.target_config
           = {"daq_task_cpu_time_ms", "daq_task_cpu_utilization_percent"}
    /\ generated[1].result.target_model.rtos_task_priority = 5
    /\ generated[1].result.target_model.rtos_stack_size = 256
    /\ generated[1].result.target_model.rtos_tick_rate = 1000

-----------------------------------------------------------------------------
(* C14 *)

\* The INFO diagnostics of this analysis about the ADC called name.
InfoFor(name) ==
    Len(SelectSeq(NewDiagnostics,
                  LAMBDA d : /\ d.severity = "INFO"
                             /\ d.rule_id = "compute_adc_sampling_rate"
                             /\ d.message = <<"ADC ", name, " is defined but has no channels assigned to it.">>))

\* C14: once compute_adc_sampling_rate has run, every ADC of the inventory
\* with no channel assigned to it (the second ADC when all channels fit on the
\* first) has exactly one INFO diagnostic about it and no
\* effective_sampling_rate written by this analysis.
C14_IdleAdcInfo ==
    (/\ RuleHasRun("compute_adc_sampling_rate")
     /\ InputContract
     /\ Constructed(ir0, ir0.target_config)
     /\ ir.channels # <<>>) =>
        \A j \in 1..Len(ir.hardware_resources) :
            (IsAdc(ir.hardware_resources[j]) /\ AssignedTo(ir.hardware_resources[j].name) = 0) =>
                /\ InfoFor(ir.hardware_resources[j].name) = 1
                /\ "effective_sampling_rate" \notin DOMAIN ir.hardware_resources[j].properties

-----------------------------------------------------------------------------
(* C15 *)

\* No resource of the inventory can take a channel in this run's packing:
\* there is no ADC, or every ADC has capacity 0.
NothingToPackOn == TotalAdcCapacity = 0

\* C15: when channels are requested but the packing of this run used no
\* resource, compute_adc_sampling_rate emits exactly one WARNING and no other
\* diagnostic, and writes no effective_sampling_rate into any resource, also
\* when the IR carried assignments before analysis started.
C15_NoResourceUsedWarning ==
    (/\ RuleHasRun("compute_adc_sampling_rate")
     /\ ir.channels # <<>>
     /\ NothingToPackOn) =>
        /\ Emitted("compute_adc_sampling_rate", "WARNING") = 1
        /\ EmittedBy("compute_adc_sampling_rate") = 1
        /\ \A j \in 1..Len(ir.hardware_resources) :
              ir.hardware_resources[j].properties = ir0.hardware_resources[j].properties

-----------------------------------------------------------------------------
(* C16 *)

IsPrefix(s, t) == Len(s) <= Len(t) /\ SubSeq(t, 1, Len(s)) = s

\* C16: the diagnostic list of the IR is append-only: every step (a rule run
\* by analyze, a rule called directly, a second analyze, code generation)
\* leaves every diagnostic that was in the list in the list, unchanged and at
\* its position, and adds new ones only at the end; so the diagnostics of a
\* first analyze are a prefix of the list after a second one.
C16_AppendOnly == [][IsPrefix(ir.semantic_errors, ir'.semantic_errors)]_vars

\* The second analyze of six channels at 1000 Hz on ADC1 (capacity 4) has
\* returned: the four diagnostics of the first run, then four more.
C16_Witness ==
    /\ run = 2
    /\ Done
    /\ Len(ir0.semantic_errors) = 4
    /\ Len(ir.semantic_errors) = 8
    /\ SubSeq(ir.semantic_errors, 1, 4) = ir0.semantic_errors

-----------------------------------------------------------------------------
(* C18 *)

\* The rule methods called directly so far, in call order.
DirectRules == [j \in 1..Len(direct) |-> direct[j].rule]

\* C18: a rule method called directly on a constructed IR records its
\* findings on the IR: after validate_adc_availability on an IR with more
\* channels than ADC capacity, ir.semantic_errors has exactly one entry, the
\* capacity finding; after compute_cpu_budget and then emit_schedulability on
\* an IR with utilization above 100 %, it has exactly two entries.
C18_DirectCallRecords ==
    /\ (DirectRules = <<"validate_adc_availability">> /\ OverCapacity) =>
          /\ Len(ir.semantic_errors) = 1
          /\ ir.semantic_errors[1].message = "Not enough ADC capacity"
    /\ (/\ DirectRules = <<"compute_cpu_budget", "emit_schedulability">>
        /\ ir.sample_rate > 0
        /\ Utilization100 > 100 * 100) =>
          Len(ir.semantic_errors) = 2

-----------------------------------------------------------------------------
(* C19 *)

\* Channels are requested, they fit into the ADC capacity, sample_rate > 0 and
\* the CPU utilization (len(channels) + 5) * sample_rate / 100 is at most 80.
CleanConfiguration ==
    /\ ir0.channels # <<>>
    /\ Len(ir0.channels) <= TotalAdcCapacity
    /\ ir0.sample_rate > 0
    /\ Utilization100 <= 80 * 100

-----------------------------------------------------------------------------
(* C20 *)

-----------------------------------------------------------------------------
(* C21 *)

\* The assignments the IR can hold while analyze runs: those packing makes,
\* or those the IR carried when packing returns before its clear.
MaxAssignments ==
    IF Packable > Len(ir0.resource_assignments)
    THEN Packable
    ELSE Len(ir0.resource_assignments)

\* C21 as stated (the iterations of the loop over the phases granted): the
\* loop iterations of analyze are at most (number of rules) + (total ADC
\* capacity) + (resources times assignments).
C21_IterationsWithinStatedBound ==
    (Done /\ InputContract) =>
        analyze_iterations(ir0)
            <= Len(phases) + Len(RuleOrder) + TotalAdcCapacity
               + Len(ir0.hardware_resources) * MaxAssignments

\* C21: analyze always terminates: it is never more than five rule iterations
\* into its schedule, until it returns the next rule is there to run, and all
\* its loops together make a number of iterations bounded by the inputs:
\* (phases) + (rules) + (total ADC capacity) + 5 * (resources) +
\* (resources + 1) * (assignments).
C21_Terminates ==
    /\ Len(calls) <= Len(RuleOrder)
    /\ pc = Len(calls) + 1
    /\ ~Done => AtRule(RuleOrder[pc])
    /\ Done =>
          analyze_iterations(ir0)
              <= Len(phases) + Len(RuleOrder) + TotalAdcCapacity
                 + 5 * Len(ir0.hardware_resources)
                 + (Len(ir0.hardware_resources) + 1) * MaxAssignments

\* analyze has returned for six channels on ADC1 (capacity 4) and ADC2
\* (capacity 2): 4 + 5 iterations of analyze, 2 filter passes and 2 + 6
\* packing iterations, and 2 + 6 + 2 + 2 * 6 for the rates.
C21_Witness ==
    /\ Done
    /\ Len(ir0.channels) = 6
    /\ ir0.hardware_resources = <<HardwareResource("ADC1", "ADC", 4),
                                  HardwareResource("ADC2", "ADC", 2)>>
    /\ ir0.resource_assignments = <<>>
    /\ analyze_iterations(ir0) = 4 + 5 + 2 + (2 + 2 + 6) + (2 + 6 + 2 + 12)

-----------------------------------------------------------------------------------------------------------------------------------------------------
(* The sensor-configuration service: the catalogs of src/daq_config.py,    *)
(* analyze of src/semantic_analyzer.py, generate_code of                   *)
(* src/esp_mqtt_generator.py and the /generate-code endpoint of            *)
(* src/main_api.py.  A message is the tuple of the pieces its f-string     *)
(* joins.                                                                  *)

MaxSensors == 2

\* pin: Optional[int] = None; no pin of the requests enumerated is negative.
NoPin == -1

BOARD_CATALOG ==
    [board \in {"ESP32", "ESP8266", "Arduino Uno", "Arduino Nano", "Arduino Mega"} |->
        [adc_pins |-> CASE board = "ESP32" -> {32, 33, 34, 35, 36, 39}
                        [] board = "ESP8266" -> {0}
                        [] board = "Arduino Uno" -> 14..19
                        [] board = "Arduino Nano" -> 14..21
                        [] board = "Arduino Mega" -> 54..69]]

Boards == {"ESP32", "ESP8266", "Arduino Uno", "Arduino Nano", "Arduino Mega"}

SENSOR_CATALOG ==
    [s_type \in {"DHT22", "BMP280", "MQ135", "LDR"} |->
        [default_pin |-> CASE s_type = "DHT22" -> 4
                           [] s_type = "BMP280" -> NoPin
                           [] OTHER -> 34,
         mcu_support |-> Boards,
         requires_pin |-> s_type # "BMP280",
         pin_capability |-> IF s_type \in {"MQ135", "LDR"} THEN "ADC" ELSE None]]

Falsy(text) == text = None \/ text = ""

\* The body of the sensor loop with the pin conflict test left out: the pin
\* is recorded for the sensor seen last.
SensorStep_overwrite(s, board, used_pins, errors) ==
    LET s_type == s.type
        pin == s.pin
    IN  IF s_type \notin DOMAIN SENSOR_CATALOG
        THEN [used_pins |-> used_pins, errors |-> Append(errors, <<"Unsupported sensor: ", s_type>>)]
        ELSE LET meta == SENSOR_CATALOG[s_type]
             IN  IF ~meta.requires_pin
                 THEN [used_pins |-> used_pins, errors |-> errors]
                 ELSE IF pin = NoPin
                 THEN [used_pins |-> used_pins,
                       errors |-> Append(errors, <<"Sensor ", s_type, " requires a pin.">>)]
                 ELSE [used_pins |-> [p \in DOMAIN used_pins \cup {pin} |->
                                         IF p = pin THEN s_type ELSE used_pins[p]],
                       errors |-> IF meta.pin_capability = "ADC" /\ pin \notin BOARD_CATALOG[board].adc_pins
                                  THEN Append(errors, <<"Pin ", pin, " is not ADC-capable for board ", board,
                                                        "; required for analog sensor ", s_type, ".">>)
                                  ELSE errors]

\* The body of for s in sensors: of analyze, for the sensor s; used_pins maps
\* a pin to the type of the sensor that took it first.
SensorStep(s, board, used_pins, errors) ==
    LET s_type == s.type
        pin == s.pin
    IN  IF s_type \notin DOMAIN SENSOR_CATALOG
        THEN [used_pins |-> used_pins, errors |-> Append(errors, <<"Unsupported sensor: ", s_type>>)]
        ELSE LET meta == SENSOR_CATALOG[s_type]
             IN  IF ~meta.requires_pin
                 THEN [used_pins |-> used_pins, errors |-> errors]
                 ELSE IF pin = NoPin
                 THEN [used_pins |-> used_pins,
                       errors |-> Append(errors, <<"Sensor ", s_type, " requires a pin.">>)]
                 ELSE LET conflict == pin \in DOMAIN used_pins
                          e1 == IF conflict
                                THEN Append(errors, <<"Pin conflict: pin ", pin, " already used by ",
                                                      used_pins[pin], ".">>)
                                ELSE errors
                      IN  [used_pins |-> IF conflict THEN used_pins
                                         ELSE [p \in DOMAIN used_pins \cup {pin} |->
                                                  IF p = pin THEN s_type ELSE used_pins[p]],
                           errors |-> IF meta.pin_capability = "ADC" /\ pin \notin BOARD_CATALOG[board].adc_pins
                                      THEN Append(e1, <<"Pin ", pin, " is not ADC-capable for board ", board,
                                                        "; required for analog sensor ", s_type, ".">>)
                                      ELSE e1]

RECURSIVE SensorLoop(_, _, _, _)
SensorLoop(sensors, board, used_pins, errors) ==
    IF sensors = <<>> THEN errors
    ELSE LET t == SensorStep(Head(sensors), board, used_pins, errors)
         IN  SensorLoop(Tail(sensors), board, t.used_pins, t.errors)

\* analyze(config) of src/semantic_analyzer.py: the list of semantic errors.
semantic_analyzer_analyze(config) ==
    IF config.board \notin DOMAIN BOARD_CATALOG
    THEN <<<<"Unsupported board: ", config.board>>>>
    ELSE LET errors == SensorLoop(config.sensors, config.board, <<>>, <<>>)
             e1 == IF config.mqtt_enabled /\ Falsy(config.wifi_ssid)
                   THEN Append(errors, <<"WiFi SSID is required when MQTT is enabled.">>) ELSE errors
             e2 == IF config.mqtt_enabled /\ Falsy(config.wifi_password)
                   THEN Append(e1, <<"WiFi password is required when MQTT is enabled.">>) ELSE e1
         IN  IF config.mqtt_enabled /\ Falsy(config.mqtt_broker)
             THEN Append(e2, <<"MQTT broker is required when MQTT is enabled.">>) ELSE e2

\* generate_code(user_config) of src/esp_mqtt_generator.py: the rendered parts
\* in sensor order, or the exception the first offending sensor raises.  A
\* rendered part is the template of the sensor type with the pin it is given;
\* readable says whether the template files can be opened.
RECURSIVE esp_generate_code(_, _, _, _)
esp_generate_code(sensors, mcu, readable, final_code_parts) ==
    IF sensors = <<>> THEN [raised |-> None, detail |-> <<>>, code |-> final_code_parts]
    ELSE LET s_type == Head(sensors).type
             pin == Head(sensors).pin
         IN  IF s_type \notin DOMAIN SENSOR_CATALOG
             THEN [raised |-> "UnsupportedSensorError", detail |-> <<"Sensor ", s_type, " not supported.">>,
                   code |-> <<>>]
             ELSE IF mcu \notin SENSOR_CATALOG[s_type].mcu_support
             THEN [raised |-> "IncompatibleMCUError", detail |-> <<s_type, " not compatible with ", mcu>>,
                   code |-> <<>>]
             ELSE IF ~readable
             THEN [raised |-> "Exception", detail |-> <<"Unexpected error: ", s_type>>, code |-> <<>>]
             ELSE esp_generate_code(Tail(sensors), mcu, readable,
                      Append(final_code_parts,
                             [template |-> s_type,
                              pin |-> IF pin = NoPin \/ pin = 0 THEN SENSOR_CATALOG[s_type].default_pin
                                      ELSE pin]))

\* The response of POST /generate-code: GenerateResponse(code=code), or the
\* HTTPException raised, which carries no code.
Response(status_code, detail, code) ==
    [state |-> "responded", status_code |-> status_code, detail |-> detail, code |-> code]

api_generate_code(req, readable) ==
    IF req.sensors = <<>> THEN Response(400, <<<<"At least one sensor is required.">>>>, <<>>)
    ELSE LET semantic_errors == semantic_analyzer_analyze(req)
         IN  IF semantic_errors # <<>> THEN Response(400, semantic_errors, <<>>)
             ELSE LET g == esp_generate_code(req.sensors, req.mcu, readable, <<>>)
                  IN  CASE g.raised = None -> Response(200, <<>>, g.code)
                        [] g.raised \in {"UnsupportedSensorError", "IncompatibleMCUError"} ->
                               Response(400, <<g.detail>>, <<>>)
                        [] OTHER -> Response(500, <<g.detail>>, <<>>)

\* The requests enumerated.
SensorTypes == {"DHT22", "LDR", "BMP280", "SHT31"}
Pins == {NoPin, 4, 34}
SensorSelection == [type : SensorTypes, pin : Pins]
SensorLists == UNION {[1..n -> SensorSelection] : n \in 0..MaxSensors}

GenerateRequest ==
    [mcu : {"ESP32", "STM32"}, board : {"ESP32", "STM32"}, sensors : SensorLists,
     mqtt_enabled : BOOLEAN, wifi_ssid : {None, "ssid"}, wifi_password : {"", "pass"},
     mqtt_broker : {"", "mqtt.local"}]

InitSensors ==
    /\ ir = DAQConfigIR(0, <<>>, <<>>, "fresh")
    /\ ir0 = ir
    /\ pc = 1
    /\ calls = <<>>
    /\ run = 1
    /\ direct = <<>>
    /\ generated = <<>>
    /\ driver = Idle
    /\ peer = None
    /\ \E req \in GenerateRequest :
          request = [state |-> "received", req |-> req, errors |-> <<>>, response |-> NoRequest]

\* The handler of POST /generate-code, from the request to its response;
\* errors is what analyze returns for the request.
PostGenerateCode ==
    /\ request.state = "received"
    /\ \E readable \in BOOLEAN :
          request' = [request EXCEPT !.state = "responded",
                                     !.errors = semantic_analyzer_analyze(request.req),
                                     !.response = api_generate_code(request.req, readable)]
    /\ UNCHANGED <<ir, ir0, pc, calls, run, direct, generated, driver, peer>>

NextSensors == PostGenerateCode

SpecSensors == InitSensors /\ [][NextSensors]_vars

-----------------------------------------------------------------------------------------------------------------------------------------------------
(* C22 *)

Responded == request.state = "responded"

PinRequiring(s) == s.type \in DOMAIN SENSOR_CATALOG /\ SENSOR_CATALOG[s.type].requires_pin

IsPinConflict(e, pin) == Len(e) = 5 /\ e[1] = "Pin conflict: pin " /\ e[2] = pin

SamePin(sensors) ==
    {sensors[j].pin : j \in {k \in 1..Len(sensors) :
        /\ PinRequiring(sensors[k])
        /\ sensors[k].pin # NoPin
        /\ \E i \in 1..(k - 1) : PinRequiring(sensors[i]) /\ sensors[i].pin = sensors[k].pin}}

\* Every sensor is of a catalogued type, every sensor that requires a pin has
\* one, no two of them have the same, an analog sensor has an ADC pin of the
\* board, and the WiFi and MQTT settings are all there.
ValidConfig(req) ==
    /\ req.board \in DOMAIN BOARD_CATALOG
    /\ \A k \in 1..Len(req.sensors) :
          LET s == req.sensors[k]
          IN  /\ s.type \in DOMAIN SENSOR_CATALOG
              /\ PinRequiring(s) => s.pin # NoPin
              /\ SENSOR_CATALOG[s.type].pin_capability = "ADC" => s.pin \in BOARD_CATALOG[req.board].adc_pins
    /\ SamePin(req.sensors) = {}
    /\ ~Falsy(req.wifi_ssid) /\ ~Falsy(req.wifi_password) /\ ~Falsy(req.mqtt_broker)

-----------------------------------------------------------------------------------------------------------------------------------------------------
(* C23 *)

\* The first TotalAdcCapacity channels, each bound to its slot.
FirstFit == [k \in 1..Packable |-> Binding(k)]

\* The first half of C23: with an ADC present and more channels than total ADC
\* capacity, packing assigns exactly the first total-capacity channels in
\* channel order and emits exactly one diagnostic, an ERROR.
ExhaustedPacking ==
    (RuleHasRun("pack_channels_to_adcs") /\ OverCapacity /\ HasAdc) =>
        /\ ir.resource_assignments = FirstFit
        /\ Len(ir.resource_assignments) = TotalAdcCapacity
        /\ Emitted("pack_channels_to_adcs", "ERROR") = 1
        /\ EmittedBy("pack_channels_to_adcs") = 1

\* C23: when the resources are exhausted before the channels are (at least one
\* ADC present), pack_channels_to_adcs assigns exactly the first total-capacity
\* channels in channel order, leaves the others unassigned and emits exactly
\* one ERROR; so after analyze the number of assignments is always
\* min(len(channels), total ADC capacity).
C23_AssignmentCount ==
    /\ ExhaustedPacking
    /\ Done => Len(ir.resource_assignments) = Packable

-----------------------------------------------------------------------------------------------------------------------------------------------------
(* C24 *)

IsErrorOf(diagnostic, rule) == diagnostic.rule_id = rule /\ diagnostic.severity = "ERROR"

\* How many assignments carry the channel id, and how many entries of
\* channels do.
AssignmentsOf(channel_id) ==
    Cardinality({j \in 1..Len(ir.resource_assignments) :
                    ir.resource_assignments[j].channel_id = channel_id})

RequestsOf(channel_id) ==
    Cardinality({k \in 1..Len(ir0.channels) : ir0.channels[k] = channel_id})

\* C24: within one run of analyze every ERROR of pack_channels_to_adcs comes
\* after an ERROR of validate_adc_availability of the same run; and when the
\* capacity rule emitted nothing, packing gives every requested channel exactly
\* one assignment.
C24_PackErrorOnlyAfterCapacityError ==
    /\ \A j \in 1..Len(NewDiagnostics) :
          IsErrorOf(NewDiagnostics[j], "pack_channels_to_adcs") =>
              \E i \in 1..(j - 1) : IsErrorOf(NewDiagnostics[i], "validate_adc_availability")
    /\ (RuleHasRun("pack_channels_to_adcs") /\ EmittedBy("validate_adc_availability") = 0) =>
          \A k \in 1..Len(ir0.channels) :
              AssignmentsOf(ir0.channels[k]) = RequestsOf(ir0.channels[k])

\* Both ERRORs of packing occur in the enumeration; the witness is the run
\* with ADCs short of the channels.
C24_Witness ==
    /\ Done
    /\ HasAdc
    /\ Emitted("pack_channels_to_adcs", "ERROR") = 1
    /\ Emitted("validate_adc_availability", "ERROR") = 1
    /\ Len(ir.resource_assignments) = TotalAdcCapacity
    /\ TotalAdcCapacity > 0

-----------------------------------------------------------------------------------------------------------------------------------------------------
(* C25 *)

\* The second analyze of the IR has returned; ir0 is the IR as the first left it.
SecondRunDone == run = 2 /\ Done

\* pack_channels_to_adcs called on its own result changes nothing.
PackTwice(cur) ==
    LET once == pack_channels_to_adcs(cur).ir
    IN  pack_channels_to_adcs(once).ir = once

\* C25: a second analyze of the same IR, with channels, sample_rate and
\* inventory untouched in between, leaves resource_assignments, the resources
\* with their effective_sampling_rate and target_config as the first analyze
\* left them, and only appends to the diagnostics; so does a second
\* pack_channels_to_adcs.
C25_Idempotent ==
    /\ PackTwice(ir)
    /\ SecondRunDone =>
          /\ ir.resource_assignments = ir0.resource_assignments
          /\ ir.hardware_resources = ir0.hardware_resources
          /\ ir.target_config = ir0.target_config
          /\ ir.channels = ir0.channels /\ ir.sample_rate = ir0.sample_rate
          /\ IsPrefix(ir0.semantic_errors, ir.semantic_errors)

C25_Witness ==
    /\ SecondRunDone
    /\ Len(ir.resource_assignments) = 6
    /\ ir.sample_rate = 1000
    /\ "effective_sampling_rate" \in DOMAIN ir.hardware_resources[1].properties
    /\ HasUtilization
    /\ Len(ir.semantic_errors) > Len(ir0.semantic_errors)

-----------------------------------------------------------------------------------------------------------------------------------------------------
(* C26 *)

\* The resources of the inventory that carry the name.
ResourcesNamed(name) ==
    {k \in 1..Len(ir.hardware_resources) : ir.hardware_resources[k].name = name}

\* C26: only ADC-type resources take part in allocation: after analyze no
\* assignment names a resource that is not of type ADC, the capacity ERROR
\* depends on the ADC capacity alone, and no resource that is not of type ADC
\* is changed, in its properties or otherwise.
C26_OnlyAdcsAllocated ==
    /\ Done =>
          \A j \in 1..Len(ir.resource_assignments) :
              \A k \in ResourcesNamed(ir.resource_assignments[j].resource_name) :
                  IsAdc(ir.hardware_resources[k])
    /\ RuleHasRun("validate_adc_availability") =>
          (Emitted("validate_adc_availability", "ERROR") = 1 <=> Len(ir0.channels) > TotalAdcCapacity)
    /\ Len(ir.hardware_resources) = Len(ir0.hardware_resources)
    /\ \A k \in 1..Len(ir0.hardware_resources) :
          ~IsAdc(ir0.hardware_resources[k]) => ir.hardware_resources[k] = ir0.hardware_resources[k]

\* Two channels, an ADC of capacity 1 and a timer of capacity 1: the timer's
\* capacity would make the channels fit.
C26_Witness ==
    /\ Done
    /\ Len(ir0.channels) = 2
    /\ Len(ir0.hardware_resources) = 2
    /\ IsAdc(ir0.hardware_resources[1]) /\ ir0.hardware_resources[1].capacity = 1
    /\ ~IsAdc(ir0.hardware_resources[2])
    /\ Emitted("validate_adc_availability", "ERROR") = 1
    /\ Len(ir.resource_assignments) = 1
    /\ ir.hardware_resources[2].properties = <<>>
    /\ "effective_sampling_rate" \in DOMAIN ir.hardware_resources[1].properties

-----------------------------------------------------------------------------------------------------------------------------------------------------
(* C27 *)

\* C27: CodeGenerator.generate(ir, target), returning or raising, leaves the
\* IR as it was: sample_rate, channels, hardware_resources with their
\* properties, resource_assignments, target_config and diagnostics.
C27_GenerateLeavesIR ==
    \A j \in 1..Len(generated) :
        /\ generated[j].result.ir.sample_rate = generated[j].ir.sample_rate
        /\ generated[j].result.ir.channels = generated[j].ir.channels
        /\ generated[j].result.ir.hardware_resources = generated[j].ir.hardware_resources
        /\ generated[j].result.ir.resource_assignments = generated[j].ir.resource_assignments
        /\ generated[j].result.ir.target_config = generated[j].ir.target_config
        /\ generated[j].result.ir.semantic_errors = generated[j].ir.semantic_errors
        /\ j = Len(generated) => ir = generated[j].result.ir

\* A successful generation and, on another run, a failing one, each for an
\* analysed IR that holds assignments, rates, CPU values and diagnostics; the
\* witness is the successful one.
C27_Witness ==
    /\ Len(generated) = 1
    /\ ~generated[1].result.raised
    /\ generated[1].target = "tiny-rtos"
    /\ Len(ir.resource_assignments) = 6
    /\ "effective_sampling_rate" \in DOMAIN ir.hardware_resources[1].properties
    /\ HasUtilization
    /\ ir.semantic_errors # <<>>
    /\ DOMAIN generated[1].result.files = {"main.c", "hal_adc.h"}

-----------------------------------------------------------------------------------------------------------------------------------------------------
(* C28 *)

\* The resource_index values of the assignments that name the resource, in
\* the order of the list.
IndicesOf(assignments, name) ==
    LET mine == SelectSeq(assignments, LAMBDA asg : asg.resource_name = name)
    IN  [k \in 1..Len(mine) |-> mine[k].resource_index]

\* C28: the adapter's adc_channel_map has a key for exactly the resource names
\* that occur in resource_assignments, the value of a name is the sequence of
\* the resource_index values of its assignments in list order, and the map
\* holds as many indices as there are assignments.
C28_AdcChannelMap ==
    \A j \in 1..Len(generated) :
        ~generated[j].result.raised =>
            LET map == generated[j].result.target_model.adc_channel_map
                assignments == generated[j].ir.resource_assignments
            IN  /\ DOMAIN map = {assignments[k].resource_name : k \in 1..Len(assignments)}
                /\ \A name \in DOMAIN map : map[name] = IndicesOf(assignments, name)
                /\ Cardinality(UNION {{<<name, k>> : k \in 1..Len(map[name])} : name \in DOMAIN map})
                       = Len(assignments)

\* Six channels on ADC1 (capacity 2) and ADC2 (capacity 4).
C28_Witness ==
    /\ Len(generated) = 1
    /\ ~generated[1].result.raised
    /\ generated[1].result.target_model.adc_channel_map
           = [name \in {"ADC1", "ADC2"} |-> IF name = "ADC1" THEN <<0, 1>> ELSE <<0, 1, 2, 3>>]
    /\ Len(generated[1].ir.resource_assignments) = 6

-----------------------------------------------------------------------------------------------------------------------------------------------------
(* C29 *)

IsBudgetWarning(diagnostic) ==
    diagnostic.rule_id = "compute_cpu_budget" /\ diagnostic.severity = "WARNING"

\* More than 100 percent: (0.1 * len(channels) + 0.5) ms of each 1000 / sample_rate ms.
Unschedulable == (Len(ir0.channels) + 5) * ir0.sample_rate > 10000

-----------------------------------------------------------------------------------------------------------------------------------------------------
(* C30 *)

\* C30: when compute_cpu_budget faults in this run of analyze (sample_rate = 0)
\* and so writes no utilization, emit_schedulability emits no diagnostic, also
\* when target_config held a daq_task_cpu_utilization_percent before the run.
C30_NoVerdictWithoutBudget ==
    (RuleHasRun("emit_schedulability") /\ ir0.sample_rate = 0) =>
        /\ Cardinality(FaultsOf("compute_cpu_budget")) = 1
        /\ EmittedBy("emit_schedulability") = 0

====
